---- MODULE Spec2Model ----
(***************************************************************************)
(* ChunkUploader (src/index.ts): the status machine, the chunk loop, the   *)
(* retry loop and the interruptible retry wait.                            *)
(*                                                                         *)
(* JavaScript runs one callback at a time, so every action below is one    *)
(* synchronous run of code: a public method up to its return, or the       *)
(* continuation of the chunk loop from one await to the next.  The other   *)
(* party (the caller, the transport function, the timer) may act between   *)
(* any two of them.  The observer callbacks (onStatusChange, onError, ...) *)
(* are recorded in log in the order the code makes them; they are taken    *)
(* not to call back into the uploader before they return.                  *)
(*                                                                         *)
(* src/unnamed/part_001 holds an older copy of the same class, in which    *)
(* pause() is also refused while the final chunk is in flight and the      *)
(* retry wait is a plain timer; src/index.ts is the one modelled.          *)
(***************************************************************************)
EXTENDS Integers, Sequences, FiniteSets, TLC

\* ---- bounds of the model ------------------------------------------------
MaxFileSize == 3
MaxChunkBytes == 2
MaxRetries == 1
MaxLoops == 2
MaxFailures == 2

\* ---- values -------------------------------------------------------------
Statuses == {"pending", "uploading", "pausing", "paused", "aborted", "complete", "error"}

\* the value of a field that was never assigned
Undefined == "undefined"

\* the values a transport call may reject with
Errors == {"e1", "e2"}

LoopIds == 1..MaxLoops

\* the default of options.retryDelays
DefaultRetryDelays == <<1000, 2000, 4000, 8000>>

\* the schedules tried: the first n delays of the default, n = 0 disables retries
RetryDelayChoices == {SubSeq(DefaultRetryDelays, 1, n) : n \in 0..MaxRetries}

VARIABLES
    file_size,      \* options.file.size
    chunkBytes,     \* this._chunkBytes
    retryDelays,    \* this._retryDelays
    status,         \* this._status
    position,       \* this._position
    error,          \* this._error
    listeners,      \* this._statusChangedEventListeners: status -> set of waits (by loop)
    loops,          \* one record per activation of _startUploadFromCurrentPosition
    calls,          \* every onChunkUpload invocation so far, with its outcome
    log,            \* every callback notification so far, in order
    lastOp          \* the public method run by the last step, and what it returned

vars == <<file_size, chunkBytes, retryDelays, status, position, error,
          listeners, loops, calls, log, lastOp>>

config == <<file_size, chunkBytes, retryDelays>>

\* ---- the loop activations -----------------------------------------------
\* pc: "none" not started; "slice" awaiting file.slice; "transport" awaiting
\* onChunkUpload; "wait" awaiting _waitForRetry; "waitResolved" the wait has
\* settled and its continuation is queued; "check" _uploadNextChunk has
\* returned and the continuation of _startUploadFromCurrentPosition is
\* queued; "done" the activation has ended.  caught is the error of the catch
\* block the activation is in, if it is in one.
NoLoop ==
    [pc |-> "none", isLastChunk |-> FALSE, endPosition |-> 0, sliceStart |-> 0,
     blobSize |-> 0, retry |-> 0, call |-> 0, caught |-> Undefined,
     isResolved |-> FALSE, timerArmed |-> FALSE, isPausd |-> FALSE,
     isLastChunkUploaded |-> FALSE]

Started == {l \in LoopIds : loops[l].pc # "none"}

NextLoop == Cardinality(Started) + 1

\* ---- notifications ------------------------------------------------------
Ev(type, s1, s2, n, m) == [type |-> type, s1 |-> s1, s2 |-> s2, n |-> n, m |-> m]

StatusChangeEv(old, new) == Ev("onStatusChange", old, new, 0, 0)
ChunkCompleteEv(bytesAccepted, bytesTotal) == Ev("onChunkComplete", "", "", bytesAccepted, bytesTotal)
SuccessEv == Ev("onSuccess", "", "", 0, 0)
ErrorEv(e) == Ev("onError", e, "", 0, 0)
PausedEv == Ev("onPaused", "", "", 0, 0)
AbortedEv == Ev("onAborted", "metadata", "", 0, 0)
WaitEv(ms) == Ev("setTimeout", "", "", ms, 0)
TimeoutEv == Ev("handleTimeout", "", "", 0, 0)
CallEv(i) == Ev("onChunkUpload", "", "", i, 0)

NoOp == [op |-> "none", ret |-> FALSE]
Op(name, ret) == [op |-> name, ret |-> ret]

\* ---- pure helpers -------------------------------------------------------
\* Blob.slice(start, end).size for a blob of file_size bytes
BlobSize(start, end) ==
    LET Clamp(x) == IF x < 0 THEN 0 ELSE IF x > file_size THEN file_size ELSE x
        s == Clamp(start)
        e == Clamp(end)
    IN  IF e > s THEN e - s ELSE 0

\* the comparison made strict
IsLastChunk_strict(pos) == pos + chunkBytes > file_size

IsLastChunk(pos) == pos + chunkBytes >= file_size

\* the end of the chunk not clamped to the file size
EndPosition_unclamped(pos) == pos + chunkBytes

EndPosition(pos) == IF IsLastChunk(pos) THEN file_size ELSE pos + chunkBytes

\* ---- reading the histories ----------------------------------------------
Last(s) == s[Len(s)]

\* the transport calls that have not settled
Outstanding == {i \in DOMAIN calls : calls[i].result = "outstanding"}

\* the transport call of the final chunk is outstanding
LastChunkOutstanding == \E i \in Outstanding : calls[i].form.isLastChunk

\* ---- the can... getters -------------------------------------------------
\* start accepted whenever no activation is running
canStart_idle == status \in {"pending", "paused", "error"}

canStart == status = "pending"

\* pause also refused while the final chunk is in flight
canPause_guarded == status = "uploading" /\ ~LastChunkOutstanding

canPause == status = "uploading"

\* resume also accepted while the pause is still pending
canResume_pausing == status = "paused" \/ status = "error" \/ status = "pausing"

\* resume also accepted after abort
canResume_aborted == status = "paused" \/ status = "error" \/ status = "aborted"

canResume == status = "paused" \/ status = "error"

\* abort accepted from paused only
canAbort_pausedOnly == status = "paused"

\* abort also accepted while the pause is still pending
canAbort_pausing == status = "paused" \/ status = "error" \/ status = "pausing"

canAbort == status = "paused" \/ status = "error"

\* one retry too few
HasRetryLeft_short(retry) == retry + 1 < Len(retryDelays)

\* retry < this._retryDelays.length
HasRetryLeft(retry) == retry < Len(retryDelays)

\* the counter left where it was
NextRetry_stuck(retry) == retry

\* retry += 1
NextRetry(retry) == retry + 1

\* the catch block without its pause test
AbandonOnPause_never == FALSE

\* the first test of the catch block: a pause is pending, give the chunk up
AbandonOnPause == status = "pausing"

\* complete only when no pause is pending
StatusAfterChunk_unlessPausing(isLastChunk) ==
    IF isLastChunk /\ status = "uploading" THEN "complete" ELSE status

\* if (isLastChunk) this.status = 'complete'
StatusAfterChunk(isLastChunk) == IF isLastChunk THEN "complete" ELSE status

\* ---- the status setter --------------------------------------------------
\* a wait that does not listen
HandlePause_deaf(r) == r

\* the wait marked settled but its promise never resolved
HandlePause_unresolved(r) ==
    IF r.isResolved THEN r
    ELSE [r EXCEPT !.isResolved = TRUE, !.timerArmed = FALSE, !.isPausd = TRUE]

\* the timer left armed when the pause wins
HandlePause_timerLeft(r) ==
    IF r.isResolved THEN r
    ELSE [r EXCEPT !.isResolved = TRUE, !.isPausd = TRUE, !.pc = "waitResolved"]

\* handlePause of the wait of loop record r
HandlePause(r) ==
    IF r.isResolved THEN r
    ELSE [r EXCEPT !.isResolved = TRUE, !.timerArmed = FALSE,
                   !.isPausd = TRUE, !.pc = "waitResolved"]

\* the loops after the setter has run the listeners registered for value
SetStatusLoops(ls, value) ==
    IF status = value THEN ls
    ELSE [l \in LoopIds |-> IF l \in listeners[value] THEN HandlePause(ls[l]) ELSE ls[l]]

\* the registry after the setter has run them (handlePause removes itself)
SetStatusListeners(value) ==
    IF status = value THEN listeners
    ELSE [listeners EXCEPT ![value] = {l \in @ : loops[l].isResolved}]

\* the old value read after the assignment
SetStatusLog_stale(lg, value) ==
    IF status = value THEN lg ELSE Append(lg, StatusChangeEv(value, value))

\* the log after the setter's onStatusChange
SetStatusLog(lg, value) ==
    IF status = value THEN lg ELSE Append(lg, StatusChangeEv(status, value))

\* ---- _uploadNextChunk up to its first await -----------------------------
EnterUploadNextChunk(r, pos) ==
    [r EXCEPT !.pc = "slice",
              !.isLastChunk = IsLastChunk(pos),
              !.endPosition = EndPosition(pos),
              !.sliceStart = pos,
              !.retry = 0]

\* the offset taken from the end of the slice
ChunkFormData_end(r, retry) ==
    [offset |-> r.endPosition, length |-> r.blobSize, retry |-> retry,
     total |-> file_size, isLastChunk |-> r.isLastChunk]

\* one pass of the try block: build the form data and call onChunkUpload
ChunkFormData(r, retry) ==
    [offset |-> position, length |-> r.blobSize, retry |-> retry,
     total |-> file_size, isLastChunk |-> r.isLastChunk]

CallRecord(l, r, retry) ==
    [form |-> ChunkFormData(r, retry), loop |-> l, result |-> "outstanding"]

Init ==
    /\ file_size \in 0..MaxFileSize
    /\ chunkBytes \in 1..MaxChunkBytes
    /\ retryDelays \in RetryDelayChoices
    /\ status = "pending"
    /\ position = 0
    /\ error = Undefined
    /\ listeners = [s \in Statuses |-> {}]
    /\ loops = [l \in LoopIds |-> NoLoop]
    /\ calls = <<>>
    /\ log = <<StatusChangeEv(Undefined, "pending")>>
    /\ lastOp = NoOp

\* the transport calls that have rejected so far
Failures == Cardinality({i \in DOMAIN calls : calls[i].result = "fail"})

\* ---- public methods -----------------------------------------------------
\* the error of the previous attempt kept
BeginUpload_keepError(name) ==
    /\ NextLoop \in LoopIds
    /\ status' = "uploading"
    /\ error' = error
    /\ log' = SetStatusLog(log, "uploading")
    /\ listeners' = SetStatusListeners("uploading")
    /\ loops' = [SetStatusLoops(loops, "uploading") EXCEPT
                    ![NextLoop] = EnterUploadNextChunk(NoLoop, position)]
    /\ lastOp' = Op(name, TRUE)
    /\ UNCHANGED <<config, position, calls>>

\* start(), resume(): the shared body after the can... test
BeginUpload(name) ==
    /\ NextLoop \in LoopIds
    /\ status' = "uploading"
    /\ error' = Undefined
    /\ log' = SetStatusLog(log, "uploading")
    /\ listeners' = SetStatusListeners("uploading")
    /\ loops' = [SetStatusLoops(loops, "uploading") EXCEPT
                    ![NextLoop] = EnterUploadNextChunk(NoLoop, position)]
    /\ lastOp' = Op(name, TRUE)
    /\ UNCHANGED <<config, position, calls>>

Refuse(name) ==
    /\ lastOp' = Op(name, FALSE)
    /\ UNCHANGED <<config, status, position, error, listeners, loops, calls, log>>

Start ==
    IF canStart THEN BeginUpload("start") ELSE Refuse("start")

Resume ==
    IF canResume THEN BeginUpload("resume") ELSE Refuse("resume")

Pause ==
    IF canPause
    THEN /\ status' = "pausing"
         /\ loops' = SetStatusLoops(loops, "pausing")
         /\ listeners' = SetStatusListeners("pausing")
         /\ log' = SetStatusLog(log, "pausing")
         /\ lastOp' = Op("pause", TRUE)
         /\ UNCHANGED <<config, position, error, calls>>
    ELSE Refuse("pause")

Abort ==
    IF canAbort
    THEN /\ status' = "aborted"
         /\ loops' = SetStatusLoops(loops, "aborted")
         /\ listeners' = SetStatusListeners("aborted")
         /\ log' = Append(SetStatusLog(log, "aborted"), AbortedEv)
         /\ lastOp' = Op("abort", TRUE)
         /\ UNCHANGED <<config, position, error, calls>>
    ELSE Refuse("abort")

\* ---- the chunk loop -----------------------------------------------------
\* file.slice resolves; the retry loop starts with retry = 0
SliceResolved(l) ==
    /\ loops[l].pc = "slice"
    /\ LET r == [loops[l] EXCEPT
                    !.blobSize = BlobSize(loops[l].sliceStart, loops[l].endPosition),
                    !.retry = 0,
                    !.pc = "transport",
                    !.call = Len(calls) + 1]
       IN /\ loops' = [loops EXCEPT ![l] = r]
          /\ calls' = Append(calls, CallRecord(l, r, 0))
          /\ log' = Append(log, CallEv(Len(calls) + 1))
    /\ lastOp' = NoOp
    /\ UNCHANGED <<config, status, position, error, listeners>>

\* onChunkComplete called before the status is set
TransportSuccess_notifyFirst(l) ==
    /\ loops[l].pc = "transport"
    /\ LET r == loops[l]
           newStatus == StatusAfterChunk(r.isLastChunk)
           afterSet == SetStatusLoops(loops, newStatus)
       IN /\ calls' = [calls EXCEPT ![r.call].result = "ok"]
          /\ position' = r.endPosition
          /\ status' = newStatus
          /\ listeners' = SetStatusListeners(newStatus)
          /\ log' = SetStatusLog(Append(log, ChunkCompleteEv(r.endPosition, file_size)),
                                 newStatus)
                        \o (IF r.isLastChunk THEN <<SuccessEv>> ELSE <<>>)
          /\ loops' = [afterSet EXCEPT ![l] =
                        [afterSet[l] EXCEPT !.pc = "check",
                                            !.isLastChunkUploaded = r.isLastChunk]]
    /\ lastOp' = NoOp
    /\ UNCHANGED <<config, error>>

\* onChunkUpload resolves: break, then the code after the retry loop
TransportSuccess(l) ==
    /\ loops[l].pc = "transport"
    /\ LET r == loops[l]
           newStatus == StatusAfterChunk(r.isLastChunk)
           afterSet == SetStatusLoops(loops, newStatus)
       IN /\ calls' = [calls EXCEPT ![r.call].result = "ok"]
          /\ position' = r.endPosition
          /\ status' = newStatus
          /\ listeners' = SetStatusListeners(newStatus)
          /\ log' = SetStatusLog(log, newStatus)
                        \o <<ChunkCompleteEv(r.endPosition, file_size)>>
                        \o (IF r.isLastChunk THEN <<SuccessEv>> ELSE <<>>)
          /\ loops' = [afterSet EXCEPT ![l] =
                        [afterSet[l] EXCEPT !.pc = "check",
                                            !.isLastChunkUploaded = r.isLastChunk]]
    /\ lastOp' = NoOp
    /\ UNCHANGED <<config, error>>

\* the error reported but not kept
ErrorExit_unrecorded(l, e) ==
    /\ status' = "error"
    /\ error' = error
    /\ listeners' = SetStatusListeners("error")
    /\ log' = Append(SetStatusLog(log, "error"), ErrorEv(e))
    /\ loops' = [SetStatusLoops(loops, "error") EXCEPT
                    ![l].pc = "done", ![l].caught = e]

\* the last branch of the catch block:
\* status = 'error'; _error = error; onError(error); throw error.
\* The throw ends _uploadNextChunk and, through the await, the activation;
\* nothing on the way reads or writes the uploader.
ErrorExit(l, e) ==
    /\ status' = "error"
    /\ error' = e
    /\ listeners' = SetStatusListeners("error")
    /\ log' = Append(SetStatusLog(log, "error"), ErrorEv(e))
    /\ loops' = [SetStatusLoops(loops, "error") EXCEPT
                    ![l].pc = "done", ![l].caught = e]

\* onChunkUpload rejects with e: the catch block.  The transport rejects at
\* most MaxFailures times in a run; the loop itself is never held back.
TransportFailure(l, e) ==
    /\ loops[l].pc = "transport"
    /\ Failures < MaxFailures
    /\ LET r == loops[l]
       IN /\ calls' = [calls EXCEPT ![r.call].result = "fail"]
          /\ IF AbandonOnPause
             THEN \* return false
                  /\ loops' = [loops EXCEPT ![l].pc = "check",
                                            ![l].isLastChunkUploaded = FALSE]
                  /\ UNCHANGED <<status, error, listeners, log>>
             ELSE IF HasRetryLeft(r.retry)
             THEN \* _waitForRetry: arm the timer, register handlePause
                  /\ loops' = [loops EXCEPT ![l].pc = "wait",
                                            ![l].caught = e,
                                            ![l].isResolved = FALSE,
                                            ![l].timerArmed = TRUE,
                                            ![l].isPausd = FALSE]
                  /\ listeners' = [listeners EXCEPT !["pausing"] = @ \cup {l}]
                  /\ log' = Append(log, WaitEv(retryDelays[r.retry + 1]))
                  /\ UNCHANGED <<status, error>>
             ELSE ErrorExit(l, e)
    /\ lastOp' = NoOp
    /\ UNCHANGED <<config, position>>

\* the retry timer fires: handleTimeout
TimerFire(l) ==
    /\ loops[l].timerArmed
    /\ IF loops[l].isResolved
       THEN loops' = [loops EXCEPT ![l].timerArmed = FALSE] /\ UNCHANGED <<listeners, log>>
       ELSE /\ loops' = [loops EXCEPT ![l].isResolved = TRUE,
                                      ![l].timerArmed = FALSE,
                                      ![l].isPausd = FALSE,
                                      ![l].pc = "waitResolved"]
            /\ listeners' = [listeners EXCEPT !["pausing"] = @ \ {l}]
            /\ log' = Append(log, TimeoutEv)
    /\ lastOp' = NoOp
    /\ UNCHANGED <<config, status, position, error, calls>>

\* the continuation of await _waitForRetry: return false, or the next pass
WaitContinue(l) ==
    /\ loops[l].pc = "waitResolved"
    /\ IF loops[l].isPausd
       THEN /\ loops' = [loops EXCEPT ![l].pc = "check",
                                      ![l].caught = Undefined,
                                      ![l].isLastChunkUploaded = FALSE]
            /\ UNCHANGED <<calls, log>>
       ELSE /\ LET r == [loops[l] EXCEPT !.retry = NextRetry(@),
                                         !.caught = Undefined,
                                         !.pc = "transport",
                                         !.call = Len(calls) + 1]
               IN /\ loops' = [loops EXCEPT ![l] = r]
                  /\ calls' = Append(calls, CallRecord(l, r, r.retry))
                  /\ log' = Append(log, CallEv(Len(calls) + 1))
    /\ lastOp' = NoOp
    /\ UNCHANGED <<config, status, position, error, listeners>>

\* the loop going on to the next chunk without looking at the status
LoopCheck_headlong(l) ==
    /\ loops[l].pc = "check"
    /\ loops' = [loops EXCEPT ![l] =
                    IF loops[l].isLastChunkUploaded
                    THEN [loops[l] EXCEPT !.pc = "done"]
                    ELSE EnterUploadNextChunk(loops[l], position)]
    /\ lastOp' = NoOp
    /\ UNCHANGED <<config, status, listeners, log, position, error, calls>>

\* the continuation of await _uploadNextChunk in _startUploadFromCurrentPosition
LoopCheck(l) ==
    /\ loops[l].pc = "check"
    /\ IF status = "pausing"
       THEN /\ status' = "paused"
            /\ listeners' = SetStatusListeners("paused")
            /\ log' = Append(SetStatusLog(log, "paused"), PausedEv)
            /\ loops' = [SetStatusLoops(loops, "paused") EXCEPT ![l].pc = "done"]
       ELSE /\ loops' = [loops EXCEPT ![l] =
                            IF loops[l].isLastChunkUploaded
                            THEN [loops[l] EXCEPT !.pc = "done"]
                            ELSE EnterUploadNextChunk(loops[l], position)]
            /\ UNCHANGED <<status, listeners, log>>
    /\ lastOp' = NoOp
    /\ UNCHANGED <<config, position, error, calls>>

Next ==
    \/ Start
    \/ Pause
    \/ Resume
    \/ Abort
    \/ \E l \in LoopIds : SliceResolved(l)
    \/ \E l \in LoopIds : TransportSuccess(l)
    \/ \E l \in LoopIds, e \in Errors : TransportFailure(l, e)
    \/ \E l \in LoopIds : TimerFire(l)
    \/ \E l \in LoopIds : WaitContinue(l)
    \/ \E l \in LoopIds : LoopCheck(l)

Spec == Init /\ [][Next]_vars

\* one step of activation l: a continuation that is ready runs, a timer that
\* is armed fires, a transport call that is outstanding settles
LoopStep(l) ==
    \/ SliceResolved(l)
    \/ TransportSuccess(l)
    \/ \E e \in Errors : TransportFailure(l, e)
    \/ TimerFire(l)
    \/ WaitContinue(l)
    \/ LoopCheck(l)

\* the event loop runs every activation that can take a step; the public
\* methods are the caller's and need never be called
Fairness == \A l \in LoopIds : WF_vars(LoopStep(l))

LiveSpec == Spec /\ Fairness

TypeOK ==
    /\ status \in Statuses
    /\ position \in Int
    /\ error \in Errors \cup {Undefined}
    /\ lastOp.op \in {"none", "start", "pause", "resume", "abort"}

\* ==== the claims ==========================================================

Min(a, b) == IF a < b THEN a ELSE b

\* the notifications of the given kinds, in order
Only(types) == SelectSeq(log, LAMBDA ev : ev.type \in types)

\* pause() was never accepted
NoPause == \A i \in DOMAIN log : log[i].s2 # "pausing"

\* only start() has begun an activation
OnlyStart == \A l \in LoopIds : l > 1 => loops[l].pc = "none"

\* start(), no pause, and no transport call has failed
AllSucceed == NoPause /\ OnlyStart /\ \A i \in DOMAIN calls : calls[i].result # "fail"

\* start(), no pause, and no transport call has succeeded
AllFail == NoPause /\ OnlyStart /\ \A i \in DOMAIN calls : calls[i].result # "ok"

\* the status changes the transition table lists, each with the method that
\* makes it ("none": the chunk loop)
TransitionTable ==
    {<<"pending", "uploading", "start">>,
     <<"uploading", "pausing", "pause">>,
     <<"pausing", "paused", "none">>,
     <<"paused", "uploading", "resume">>,
     <<"error", "uploading", "resume">>,
     <<"paused", "aborted", "abort">>,
     <<"error", "aborted", "abort">>,
     <<"uploading", "complete", "none">>,
     <<"uploading", "error", "none">>}

\* C1 as stated: every change of status is one of the table's transitions,
\* made by the operation the table names; complete and error are entered
\* only from uploading.
C1_TableOnly ==
    [][status' # status => <<status, status', lastOp'.op>> \in TransitionTable]_vars

\* C1 amended: every change of status is one of the table's transitions or
\* pausing -> complete (made by the chunk loop when the final chunk succeeds
\* after a pause was accepted); error is entered only from uploading.
C1_Transitions ==
    [][status' # status =>
          <<status, status', lastOp'.op>> \in
              TransitionTable \cup {<<"pausing", "complete", "none">>}]_vars

\* a pause was accepted during the final chunk and the upload completed
C1_Witness ==
    /\ status = "complete"
    /\ \E i \in DOMAIN log : log[i] = StatusChangeEv("pausing", "complete")
    /\ \E i \in DOMAIN log : log[i] = StatusChangeEv("error", "uploading")

\* C2 as stated: pause() called while the final chunk's transport call is
\* outstanding returns false and leaves status alone.
C2_PauseRefused ==
    [][(lastOp'.op = "pause" /\ LastChunkOutstanding) =>
          (lastOp'.ret = FALSE /\ status' = status)]_vars

\* some outstanding call of the final chunk resolves in this step
FinalChunkSucceeds ==
    \E i \in Outstanding : calls[i].form.isLastChunk /\ calls'[i].result = "ok"

\* C2 amended: pause() called while the final chunk's transport call is
\* outstanding returns true exactly when status is uploading, and status
\* then becomes pausing; otherwise it returns false and status stays.  When
\* the final chunk's call then succeeds the session ends in complete, with
\* no onPaused.
C2_PauseDuringLastChunk ==
    /\ [][(lastOp'.op = "pause" /\ LastChunkOutstanding) =>
             /\ lastOp'.ret = (status = "uploading")
             /\ status' = IF status = "uploading" THEN "pausing" ELSE status]_vars
    /\ [][FinalChunkSucceeds =>
             (status' = "complete" /\ Last(log') = SuccessEv)]_vars

\* pause() has just returned true with the final chunk in flight
C2_Witness ==
    /\ lastOp = Op("pause", TRUE)
    /\ LastChunkOutstanding
    /\ status = "pausing"
    /\ position > 0

\* C3: at most one transport call is outstanding in every reachable state.
C3_OneOutstanding == Cardinality(Outstanding) <= 1

\* the second activation, started by resume(), has a call in flight
C3_Witness ==
    /\ Cardinality(Outstanding) = 1
    /\ \E i \in Outstanding : calls[i].loop = 2

\* C4: 0 <= position <= file.size in every reachable state, and position
\* never decreases from one state to the next.
C4_PositionBounds ==
    /\ [](0 <= position /\ position <= file_size)
    /\ [][position' >= position]_vars

\* a file that is no multiple of the chunk size has been committed to its end
C4_Witness ==
    /\ position = file_size
    /\ file_size = 3
    /\ chunkBytes = 2

\* the bytes committed by the successful calls among the first n
RECURSIVE Committed(_)
Committed(n) ==
    IF n = 0 THEN 0
    ELSE Committed(n - 1) +
         (IF calls[n].result = "ok" THEN calls[n].form.length ELSE 0)

\* C5: every transport call is issued with offset equal to the position at
\* that moment, and that is the number of bytes the successful calls before
\* it delivered: the successful calls are contiguous from offset 0, also
\* across pauses, failures, errors and resumes, so no committed range is
\* sent again and none is skipped.
C5_Contiguous ==
    /\ [](\A i \in DOMAIN calls : calls[i].form.offset = Committed(i - 1))
    /\ [](position = Committed(Len(calls)))
    /\ [][Len(calls') > Len(calls) => Last(calls').form.offset = position]_vars

\* after a pause and resume() the second activation delivered a later chunk
C5_Witness ==
    /\ \E i \in DOMAIN calls :
          /\ calls[i].loop = 2
          /\ calls[i].form.offset > 0
          /\ calls[i].result = "ok"
    /\ \E i \in DOMAIN log : log[i] = PausedEv

\* ceil(file.size / chunkBytes)
ChunkCount == (file_size + chunkBytes - 1) \div chunkBytes

\* C6: for file.size > 0, when start() is called and every transport call
\* succeeds with no pause, the k-th call (k = 0, 1, ...) has offset
\* k * chunkBytes, length min(chunkBytes, size - k * chunkBytes) and total
\* size, isLastChunk is true on the call with k = ceil(size / chunkBytes) - 1
\* and on no other, there offset + length = total, position takes the
\* values chunkBytes, 2 * chunkBytes, ..., size in that order, and the
\* upload is complete after exactly ceil(size / chunkBytes) calls.
C6_ChunkSequence ==
    (file_size > 0 /\ AllSucceed) =>
        /\ Len(calls) <= ChunkCount
        /\ \A i \in DOMAIN calls :
              /\ calls[i].form.offset = (i - 1) * chunkBytes
              /\ calls[i].form.length = Min(chunkBytes, file_size - (i - 1) * chunkBytes)
              /\ calls[i].form.total = file_size
              /\ calls[i].form.isLastChunk = (i = ChunkCount)
              /\ calls[i].form.isLastChunk =>
                    calls[i].form.offset + calls[i].form.length = calls[i].form.total
        /\ LET done == Only({"onChunkComplete"})
           IN /\ \A k \in DOMAIN done : done[k].n = Min(k * chunkBytes, file_size)
              /\ position = IF done = <<>> THEN 0 ELSE Last(done).n
              /\ Len(done) = Cardinality({i \in DOMAIN calls : calls[i].result = "ok"})
        /\ (status = "complete") =
              (Len(calls) = ChunkCount /\ Outstanding = {})
        /\ status = "complete" => position = file_size

\* a file of two full chunks has been uploaded without pause or failure
C6_Witness ==
    /\ AllSucceed
    /\ status = "complete"
    /\ file_size = 2 * chunkBytes
    /\ Len(calls) = 2

\* C7: status enters complete at most once and onSuccess fires at most
\* once; when onSuccess fires, status has already been set to complete and
\* the chunk ending at file.size has been committed; position = file.size
\* and status = complete from then on; and a fully successful upload
\* without pauses has the status history pending, uploading, complete.
C7_CompleteOnce ==
    /\ Len(SelectSeq(log, LAMBDA ev : ev.type = "onStatusChange" /\ ev.s2 = "complete")) <= 1
    /\ Len(Only({"onSuccess"})) <= 1
    /\ \A i \in DOMAIN log :
          log[i] = SuccessEv =>
              /\ i > 2
              /\ log[i - 1] = ChunkCompleteEv(file_size, file_size)
              /\ log[i - 2].type = "onStatusChange" /\ log[i - 2].s2 = "complete"
              /\ position = file_size
              /\ status = "complete"
    /\ (status = "complete" /\ AllSucceed) =>
          Only({"onStatusChange"}) =
              <<StatusChangeEv(Undefined, "pending"),
                StatusChangeEv("pending", "uploading"),
                StatusChangeEv("uploading", "complete")>>
    /\ status = "complete" => Last(log) = SuccessEv

\* onSuccess has fired for an upload that was paused on its final chunk
C7_Witness ==
    /\ Last(log) = SuccessEv
    /\ ~NoPause
    /\ Len(calls) > 1

\* the last permitted attempt of activation l fails in this step with no
\* pause pending
LastAttemptFails(l) ==
    /\ loops[l].pc = "transport"
    /\ calls[loops[l].call].form.retry = Len(retryDelays)
    /\ calls'[loops[l].call].result = "fail"
    /\ status # "pausing"

\* C8: when the last permitted attempt of a chunk fails while no pause is
\* pending, status becomes error, the error getter returns the value that
\* attempt rejected with, onStatusChange and then onError (with that value)
\* are the only notifications, position is unchanged, the activation ends,
\* and no transport call is started while status stays error.
C8_ErrorOnExhaustion ==
    /\ [][\A l \in LoopIds : LastAttemptFails(l) =>
             /\ status = "uploading"
             /\ status' = "error"
             /\ error' \in Errors
             /\ error' = loops'[l].caught
             /\ log' = log \o <<StatusChangeEv("uploading", "error"), ErrorEv(error')>>
             /\ position' = position
             /\ loops'[l].pc = "done"]_vars
    /\ [][(status = "error" /\ status' = "error") => calls' = calls]_vars
    /\ [](status = "error" =>
             /\ Outstanding = {}
             /\ \A l \in LoopIds : loops[l].pc \in {"none", "done"}
             /\ Last(log) = ErrorEv(error))
    /\ [][status' = "error" /\ status # "error" =>
             \E l \in LoopIds : LastAttemptFails(l)]_vars

\* the retry of a later chunk has failed and the uploader is in error
C8_Witness ==
    /\ status = "error"
    /\ error = "e2"
    /\ Len(retryDelays) = 1
    /\ position > 0
    /\ Len(calls) = 3

\* the transport calls, timers set and timers fired when every call fails:
\* call 1, wait retryDelays[1], timer, call 2, wait retryDelays[2], ...
RetryTrace(n) ==
    [j \in 1..n |->
        LET k == (j - 1) \div 3
        IN  CASE (j - 1) % 3 = 0 -> CallEv(k + 1)
              [] (j - 1) % 3 = 1 -> WaitEv(retryDelays[k + 1])
              [] OTHER -> TimeoutEv]

\* C9: with no pause and a transport function that fails on every call,
\* start() makes the calls for offset 0 with retry 0, 1, ..., the i-th retry
\* after the wait retryDelays[i] (counting from 1) has been set and has
\* fired, never more than 1 + len(retryDelays) calls, and status is error
\* (or aborted, after abort() from error) exactly when all of them have
\* failed.
C9_RetrySchedule ==
    AllFail =>
        LET trace == Only({"onChunkUpload", "setTimeout", "handleTimeout"})
        IN /\ Len(calls) <= 1 + Len(retryDelays)
           /\ Len(trace) <= 3 * Len(retryDelays) + 1
           /\ trace = RetryTrace(Len(trace))
           /\ \A i \in DOMAIN calls :
                 /\ calls[i].form.offset = 0
                 /\ calls[i].form.retry = i - 1
                 /\ calls[i].form.length = Min(chunkBytes, file_size)
           /\ (status \in {"error", "aborted"}) =
                 (Len(calls) = 1 + Len(retryDelays) /\ Outstanding = {})
           /\ status \in {"pending", "uploading", "error", "aborted"}

\* one chunk, one retry delay, both attempts failed
C9_Witness ==
    /\ AllFail
    /\ status = "error"
    /\ Len(retryDelays) = 1
    /\ Len(calls) = 2
    /\ IsLastChunk(0)

\* C10: a retry carries the offset, length and isLastChunk of the attempt
\* that failed and a retry field one higher; the first attempt of a chunk
\* in an activation has retry 0; retry never exceeds len(retryDelays);
\* position changes only when the outstanding call succeeds, and then by
\* that call's length.
C10_RetrySameRange ==
    /\ [](\A i \in DOMAIN calls :
            /\ calls[i].form.retry \in 0..Len(retryDelays)
            /\ IF i > 1 /\ calls[i - 1].loop = calls[i].loop /\ calls[i - 1].result = "fail"
               THEN /\ calls[i].form.retry = calls[i - 1].form.retry + 1
                    /\ calls[i].form.offset = calls[i - 1].form.offset
                    /\ calls[i].form.length = calls[i - 1].form.length
                    /\ calls[i].form.isLastChunk = calls[i - 1].form.isLastChunk
               ELSE calls[i].form.retry = 0)
    /\ [][position' # position =>
             \E i \in Outstanding :
                 /\ calls'[i].result = "ok"
                 /\ calls[i].form.offset = position
                 /\ position' = position + calls[i].form.length]_vars
    /\ [][\A i \in Outstanding : calls'[i].result = "fail" => position' = position]_vars

\* a later chunk failed once and its retry was accepted
C10_Witness ==
    \E i \in DOMAIN calls :
        /\ calls[i].form.retry = 1
        /\ calls[i].form.offset > 0
        /\ calls[i].result = "ok"
        /\ position = calls[i].form.offset + calls[i].form.length

\* everything but the record of the call itself is left as it was
NothingChanges ==
    UNCHANGED <<config, status, position, error, listeners, loops, calls, log>>

\* C11: abort() returns false and changes nothing from pending, uploading,
\* pausing, aborted and complete; from paused and from error it returns
\* true, sets status to aborted and makes exactly the notifications
\* onStatusChange(old, aborted) and onAborted(metadata), leaving position,
\* error and the transport calls as they were.
C11_Abort ==
    [][lastOp'.op = "abort" =>
          IF status \in {"paused", "error"}
          THEN /\ lastOp'.ret = TRUE
               /\ status' = "aborted"
               /\ log' = log \o <<StatusChangeEv(status, "aborted"), AbortedEv>>
               /\ UNCHANGED <<config, position, error, calls, loops, listeners>>
          ELSE /\ lastOp'.ret = FALSE
               /\ NothingChanges]_vars

\* abort() has just succeeded from error
C11_Witness ==
    /\ lastOp = Op("abort", TRUE)
    /\ status = "aborted"
    /\ Last(log) = AbortedEv
    /\ \E i \in DOMAIN log : log[i] = StatusChangeEv("error", "aborted")

\* the statuses from which each method is accepted
AllowedFrom(name) ==
    CASE name = "start" -> {"pending"}
      [] name = "pause" -> {"uploading"}
      [] name = "resume" -> {"paused", "error"}
      [] name = "abort" -> {"paused", "error"}

\* C12: each of start, pause, resume and abort returns true exactly when
\* its predicate held before the call (canStart: pending; canPause:
\* uploading; canResume, canAbort: paused or error); when it returns false,
\* status, position and error are unchanged, no callback fires and no
\* transport call is started.
C12_ReturnValues ==
    [][\A name \in {"start", "pause", "resume", "abort"} :
          lastOp'.op = name =>
              /\ lastOp'.ret = (status \in AllowedFrom(name))
              /\ lastOp'.ret = FALSE => NothingChanges
              /\ lastOp'.ret = TRUE => status' # status]_vars

\* resume() has just been refused with a transport call in flight
C12_Witness ==
    /\ lastOp = Op("resume", FALSE)
    /\ status = "uploading"
    /\ Outstanding # {}
    /\ position > 0

\* C13: once status is complete or aborted, no call and no step of the
\* loop changes status or position again, and nothing is left that could:
\* no transport call is outstanding, no timer is armed and no activation
\* is before its end.  error is not terminal: resume() leaves it.
C13_Terminal ==
    /\ [][(status \in {"complete", "aborted"}) =>
             (status' = status /\ position' = position /\ calls' = calls)]_vars
    /\ [](status \in {"complete", "aborted"} =>
             /\ Outstanding = {}
             /\ \A l \in LoopIds :
                   /\ ~loops[l].timerArmed
                   /\ loops[l].pc \in {"none", "done", "check"}
                   /\ loops[l].pc = "check" => loops[l].isLastChunkUploaded)
    /\ [][(status = "error" /\ lastOp' = Op("resume", TRUE)) => status' = "uploading"]_vars

\* resume() left error, and after the later abort it is refused
C13_Witness ==
    /\ status = "aborted"
    /\ lastOp = Op("resume", FALSE)
    /\ \E i \in DOMAIN log : log[i] = StatusChangeEv("error", "uploading")

\* C14 as stated: the error getter returns a defined value if and only if
\* status is error.
C14_DefinedIffError == (error # Undefined) <=> (status = "error")

\* C14 amended: the error getter returns undefined in pending, uploading,
\* pausing, paused and complete; in error it returns the value the final
\* failed attempt rejected with; abort() does not clear it, so in aborted
\* it is still that value when aborted was reached from error and
\* undefined when it was reached from paused; every successful start() or
\* resume() leaves it undefined.
C14_ErrorValue ==
    /\ [](status \in {"pending", "uploading", "pausing", "paused", "complete"} =>
             error = Undefined)
    /\ [](status = "error" =>
             /\ error \in Errors
             /\ Last(log) = ErrorEv(error)
             /\ \E l \in LoopIds : loops[l].pc = "done" /\ loops[l].caught = error)
    /\ [](status = "aborted" =>
             (error # Undefined <=>
                \E i \in DOMAIN log : log[i] = StatusChangeEv("error", "aborted")))
    /\ [][lastOp'.op = "abort" => error' = error]_vars
    /\ [][(lastOp' = Op("start", TRUE) \/ lastOp' = Op("resume", TRUE)) =>
             error' = Undefined]_vars

\* aborted from error: the error is still there
C14_Witness ==
    /\ status = "aborted"
    /\ error = "e1"
    /\ position > 0

\* C15 as stated: for every file size, position = file.size if and only if
\* status is complete.
C15_AtEndIffComplete == (position = file_size) <=> (status = "complete")

\* C15 amended: for every file size greater than 0, position = file.size
\* if and only if status is complete; for an empty file position =
\* file.size = 0 in every state, whatever the status.
C15_AtEndIffCompleteNonEmpty ==
    /\ file_size > 0 => ((position = file_size) <=> (status = "complete"))
    /\ file_size = 0 => position = 0

\* a file of three chunks is complete
C15_Witness ==
    /\ status = "complete"
    /\ position = file_size
    /\ file_size = 3
    /\ chunkBytes = 1

\* the activations that are awaiting a slice, a transport call or a wait
Active == {l \in LoopIds : loops[l].pc \in {"slice", "transport", "wait", "waitResolved", "check"}}

\* C17: abort() returns true only when no transport call is outstanding,
\* no retry timer is armed and no activation is running; after it has,
\* no transport call is started and position does not change.
C17_AbortIsClean ==
    /\ [][lastOp' = Op("abort", TRUE) =>
             /\ Outstanding = {}
             /\ Active = {}
             /\ \A l \in LoopIds : ~loops[l].timerArmed
             /\ listeners["pausing"] = {}]_vars
    /\ [][status = "aborted" => (calls' = calls /\ position' = position /\ loops' = loops)]_vars

\* aborted after a pause in the middle of the file, and start() refused since
C17_Witness ==
    /\ status = "aborted"
    /\ lastOp = Op("start", FALSE)
    /\ 0 < position /\ position < file_size
    /\ \E i \in DOMAIN log : log[i] = PausedEv

\* the onStatusChange notifications, in order
StatusChanges == Only({"onStatusChange"})

\* C18: every change of status adds exactly one onStatusChange(old, new)
\* with old the status before and new the status after, and a step that
\* leaves status alone adds none; the first notification is the
\* constructor's (undefined, pending) and no other has old undefined; each
\* notification's old is the previous one's new and differs from its new;
\* the last one's new is the current status.
C18_StatusChangeChain ==
    /\ [][LET added == SelectSeq(SubSeq(log', Len(log) + 1, Len(log')),
                                  LAMBDA ev : ev.type = "onStatusChange")
          IN /\ SubSeq(log', 1, Len(log)) = log
             /\ IF status' # status
                THEN added = <<StatusChangeEv(status, status')>>
                ELSE added = <<>>]_vars
    /\ [](LET sc == StatusChanges
          IN /\ sc[1] = StatusChangeEv(Undefined, "pending")
             /\ Last(sc).s2 = status
             /\ \A i \in 2..Len(sc) :
                   /\ sc[i].s1 = sc[i - 1].s2
                   /\ sc[i].s1 # sc[i].s2
                   /\ sc[i].s1 # Undefined)

\* six changes of status have been notified, the last to aborted
C18_Witness ==
    /\ Len(StatusChanges) >= 6
    /\ Last(StatusChanges) = StatusChangeEv("paused", "aborted")

\* the outstanding call of activation l fails in this step while a pause
\* is pending
FailsWhilePausing(l) ==
    /\ loops[l].pc = "transport"
    /\ calls'[loops[l].call].result = "fail"
    /\ status = "pausing"

\* activation l has given its chunk up for a pause and has not yet ended
GaveUp(l) ==
    /\ loops[l].pc = "check"
    /\ ~loops[l].isLastChunkUploaded
    /\ status = "pausing"

\* C19: when a transport call fails while status is pausing, whatever its
\* retry count, the activation sets no timer, notifies nothing, leaves
\* status, error and position alone and returns to the loop, whose next
\* step sets status paused and calls onPaused, with no further transport
\* call, error still undefined and no onError.
C19_FailureWhilePausing ==
    /\ [][\A l \in LoopIds : FailsWhilePausing(l) =>
             /\ loops'[l].pc = "check"
             /\ ~loops'[l].isLastChunkUploaded
             /\ ~loops'[l].timerArmed
             /\ listeners' = listeners
             /\ log' = log
             /\ Len(calls') = Len(calls)
             /\ status' = "pausing"
             /\ error' = Undefined
             /\ position' = position]_vars
    /\ [][\A l \in LoopIds : (GaveUp(l) /\ loops'[l] # loops[l]) =>
             /\ loops'[l].pc = "done"
             /\ status' = "paused"
             /\ log' = log \o <<StatusChangeEv("pausing", "paused"), PausedEv>>
             /\ calls' = calls
             /\ error' = Undefined
             /\ position' = position]_vars

\* the last permitted attempt failed under a pending pause; now paused
C19_Witness ==
    /\ status = "paused"
    /\ error = Undefined
    /\ Len(retryDelays) = 1
    /\ calls # <<>>
    /\ Last(calls).result = "fail"
    /\ Last(calls).form.retry = 1
    /\ \A l \in LoopIds : ~loops[l].isPausd

\* the wait of activation l was ended by a pause
PausedInWait(l) ==
    /\ loops[l].isPausd
    /\ loops[l].pc \in {"waitResolved", "check"}

\* C20: when pause() succeeds while an activation is waiting out a retry
\* delay, the wait settles in that step with result paused, its timer is
\* cleared without having fired and its listener removed; the activation
\* then returns without another transport call and the loop sets status
\* paused, position unchanged.
C20_PauseInterruptsWait ==
    /\ [][\A l \in LoopIds :
             (lastOp' = Op("pause", TRUE) /\ loops[l].pc = "wait") =>
                 /\ loops'[l].pc = "waitResolved"
                 /\ loops'[l].isPausd
                 /\ ~loops'[l].timerArmed
                 /\ listeners'["pausing"] = {}
                 /\ status' = "pausing"]_vars
    /\ [](\A l \in LoopIds : PausedInWait(l) =>
             (status = "pausing" /\ ~loops[l].timerArmed /\ Outstanding = {}))
    /\ [][\A l \in LoopIds : (PausedInWait(l) /\ loops'[l] # loops[l]) =>
             /\ calls' = calls
             /\ position' = position
             /\ Only({"handleTimeout"}) = SelectSeq(log', LAMBDA ev : ev.type = "handleTimeout")
             /\ IF loops[l].pc = "waitResolved"
                THEN loops'[l].pc = "check" /\ status' = "pausing"
                ELSE loops'[l].pc = "done" /\ status' = "paused"]_vars

\* paused out of a retry wait: the timer was set and never fired
C20_Witness ==
    /\ status = "paused"
    /\ \E l \in LoopIds : loops[l].isPausd /\ loops[l].pc = "done"
    /\ Len(Only({"setTimeout"})) = 1
    /\ Len(Only({"handleTimeout"})) = 0
    /\ Last(calls).result = "fail"

\* the chunk an activation is working on
Chunk(r) == <<r.sliceStart, r.endPosition, r.isLastChunk>>

\* the number of onPaused notifications in a log
PausedCount(lg) == Len(SelectSeq(lg, LAMBDA ev : ev.type = "onPaused"))

\* C16: when pause() returns true exactly one activation is running, and
\* while status is pausing that activation begins no other chunk; status
\* leaves pausing only for paused or complete, never error: for complete
\* exactly when the transport call of that chunk succeeds and the chunk is
\* the last one, otherwise for paused, with onPaused called once in that
\* step and at no other time; and with every activation taking its steps
\* and every transport call settling, status does not stay pausing.  (The
\* chunk in flight is the chunk the activation is working on: its slice
\* or its transport call may be the one awaited when pause() is called.)
C16_PauseSettles ==
    /\ [][lastOp' = Op("pause", TRUE) =>
             (status' = "pausing" /\ Cardinality(Active) = 1)]_vars
    /\ [][(status = "pausing" /\ status' = "pausing") =>
             /\ \A l \in LoopIds : Chunk(loops'[l]) = Chunk(loops[l])
             /\ PausedCount(log') = PausedCount(log)]_vars
    /\ [][(status = "pausing" /\ status' # "pausing") =>
             \/ /\ status' = "complete"
                /\ \E l \in Active :
                      /\ loops[l].pc = "transport"
                      /\ loops[l].isLastChunk
                      /\ calls'[loops[l].call].result = "ok"
                /\ position' = file_size
                /\ PausedCount(log') = PausedCount(log)
             \/ /\ status' = "paused"
                /\ log' = log \o <<StatusChangeEv("pausing", "paused"), PausedEv>>
                /\ error' = Undefined]_vars
    /\ [][(/\ status = "pausing"
           /\ \E l \in Active : /\ loops[l].pc = "transport"
                                 /\ loops[l].isLastChunk
                                 /\ calls'[loops[l].call].result = "ok") =>
             status' = "complete"]_vars
    /\ [][status # "pausing" => PausedCount(log') = PausedCount(log)]_vars
    /\ [](status = "pausing" => error = Undefined)
    /\ (status = "pausing") ~> (status \in {"paused", "complete"})

\* one pause ended in paused, and after resume() a second one, made while
\* the last chunk was in flight, ended in complete
C16_Witness ==
    /\ status = "complete"
    /\ PausedCount(log) = 1
    /\ \E i \in DOMAIN log : log[i] = StatusChangeEv("pausing", "paused")
    /\ \E i \in DOMAIN log : log[i] = StatusChangeEv("pausing", "complete")

\* the number of notifications of one kind in a log
CountOf(lg, type) == Len(SelectSeq(lg, LAMBDA ev : ev.type = type))

\* the activations whose retry wait has not settled
Waiting == {l \in LoopIds : loops[l].pc = "wait"}

\* C21: a pending retry wait settles in one step, either by its timer
\* (result false, handleTimeout runs) or by an accepted pause() (result
\* true, handleTimeout does not run), and in that step its timer is
\* cleared and its listener removed; once settled its result does not
\* change and the continuation follows it; handleTimeout never runs
\* without a pending wait.  In every state the listeners registered are
\* exactly the pending waits, all for pausing and at most one, and a timer
\* is armed exactly for a pending wait.
C21_WaitSettlesOnce ==
    /\ [](/\ \A s \in Statuses \ {"pausing"} : listeners[s] = {}
          /\ listeners["pausing"] = Waiting
          /\ Cardinality(Waiting) <= 1
          /\ \A l \in LoopIds :
                /\ loops[l].timerArmed <=> l \in Waiting
                /\ l \in Waiting => ~loops[l].isResolved
                /\ loops[l].pc = "waitResolved" => loops[l].isResolved
          /\ Waiting # {} => status = "uploading")
    /\ [][\A l \in Waiting : loops'[l] # loops[l] =>
             /\ loops'[l].pc = "waitResolved"
             /\ loops'[l].isResolved
             /\ ~loops'[l].timerArmed
             /\ listeners'["pausing"] = {}
             /\ IF loops'[l].isPausd
                THEN /\ lastOp' = Op("pause", TRUE)
                     /\ CountOf(log', "handleTimeout") = CountOf(log, "handleTimeout")
                ELSE /\ lastOp' = NoOp
                     /\ log' = Append(log, TimeoutEv)
                     /\ status' = status]_vars
    /\ [][\A l \in LoopIds : loops[l].pc = "waitResolved" =>
             /\ loops'[l].pc = "waitResolved" => loops'[l] = loops[l]
             /\ loops'[l].pc # "waitResolved" =>
                   loops'[l].pc = (IF loops[l].isPausd THEN "check" ELSE "transport")]_vars
    /\ [][Waiting = {} =>
             CountOf(log', "handleTimeout") = CountOf(log, "handleTimeout")]_vars

\* two waits have settled, the first by its timer and the second by a
\* pause, and nothing is left registered or armed
C21_Witness ==
    /\ CountOf(log, "setTimeout") = 2
    /\ CountOf(log, "handleTimeout") = 1
    /\ status = "paused"
    /\ \E l \in LoopIds : loops[l].pc = "done" /\ loops[l].isPausd
    /\ listeners["pausing"] = {}
    /\ \A l \in LoopIds : ~loops[l].timerArmed

\* the transport calls that have succeeded
Succeeded == {i \in DOMAIN calls : calls[i].result = "ok"}

\* C22 as stated: onChunkComplete fires once per committed chunk, and for
\* the final chunk it fires before the change of status to complete, which
\* is notified right after it.
C22_NotifyThenComplete ==
    /\ CountOf(log, "onChunkComplete") = Cardinality(Succeeded)
    /\ \A i \in DOMAIN log :
          (log[i].type = "onStatusChange" /\ log[i].s2 = "complete") =>
              /\ i > 1
              /\ log[i - 1] = ChunkCompleteEv(file_size, file_size)

\* C22, amended: when a transport call succeeds, in one step position is
\* set to the chunk's end, then for the last chunk status is set to
\* complete and onStatusChange(old, complete) is notified, then
\* onChunkComplete(position, file.size) is notified, then for the last
\* chunk onSuccess; so status is already complete when the final chunk's
\* onChunkComplete fires.  onChunkComplete fires in no other step, hence
\* once per committed chunk.
C22_CompleteThenNotify ==
    /\ [][\A c \in Outstanding : calls'[c].result = "ok" =>
             LET last == calls[c].form.isLastChunk
             IN /\ position' = calls[c].form.offset + calls[c].form.length
                /\ status' = (IF last THEN "complete" ELSE status)
                /\ log' = log
                     \o (IF last THEN <<StatusChangeEv(status, "complete")>> ELSE <<>>)
                     \o <<ChunkCompleteEv(position', file_size)>>
                     \o (IF last THEN <<SuccessEv>> ELSE <<>>)]_vars
    /\ [][(\A c \in Outstanding : calls'[c].result # "ok") =>
             CountOf(log', "onChunkComplete") = CountOf(log, "onChunkComplete")]_vars
    /\ [](CountOf(log, "onChunkComplete") = Cardinality(Succeeded))

\* a file of several chunks is complete: the log ends with the change of
\* status, then onChunkComplete, then onSuccess
C22_Witness ==
    /\ status = "complete"
    /\ Cardinality(Succeeded) >= 2
    /\ Len(log) >= 3
    /\ SubSeq(log, Len(log) - 2, Len(log)) =
          <<StatusChangeEv("uploading", "complete"),
            ChunkCompleteEv(file_size, file_size), SuccessEv>>

\* the transport calls made for the chunk at byte offset off
CallsAt(off) == {j \in DOMAIN calls : calls[j].form.offset = off}

\* those of them made by activation l
CallsBy(l, off) == {j \in CallsAt(off) : calls[j].loop = l}

\* C23 as stated: over the whole session no chunk is attempted more than
\* 1 + len(retryDelays) times.
C23_AttemptsPerSession ==
    \A i \in DOMAIN calls :
        Cardinality(CallsAt(calls[i].form.offset)) <= 1 + Len(retryDelays)

\* C23, amended: one activation of the chunk loop (one start() or
\* resume()) attempts a chunk at most 1 + len(retryDelays) times, its
\* attempts numbered retry = 0, 1, ... in order; every resume() begins the
\* count again at retry = 0, so over the session a chunk is attempted at
\* most 1 + len(retryDelays) times for each activation that reached it.
C23_AttemptsPerActivation ==
    \A i \in DOMAIN calls :
        LET off == calls[i].form.offset
            mine == CallsBy(calls[i].loop, off)
        IN /\ Cardinality(mine) <= 1 + Len(retryDelays)
           /\ calls[i].form.retry = Cardinality({j \in mine : j < i})
           /\ Cardinality(CallsAt(off)) <=
                 Cardinality({calls[j].loop : j \in CallsAt(off)}) * (1 + Len(retryDelays))

\* with one retry delay a chunk has failed twice, and after resume() it is
\* being attempted a third time, with retry = 0
C23_Witness ==
    /\ Len(retryDelays) = 1
    /\ Len(calls) = 3
    /\ Cardinality(CallsAt(0)) = 3
    /\ calls[3].form.retry = 0
    /\ calls[3].result = "outstanding"
    /\ \E i \in DOMAIN log : log[i] = StatusChangeEv("error", "uploading")

\* activation l made every attempt the retry delays allow for the chunk at
\* the current position, and all of them failed
Exhausted(l) ==
    LET mine == CallsBy(l, position)
    IN /\ Cardinality(mine) = 1 + Len(retryDelays)
       /\ \A j \in mine : calls[j].result = "fail"

\* C24: with every activation taking its steps (slices resolve, transport
\* calls settle, armed timers fire), every activation begun by start() or
\* resume() ends, and status leaves uploading and pausing for paused,
\* error or complete; from uploading it reaches complete with
\* position = file.size unless a pause is accepted or status becomes
\* error, and status is error only when a chunk has failed all of its
\* 1 + len(retryDelays) attempts in one activation, paused only after a
\* pause was accepted.
C24_LoopTerminates ==
    /\ \A l \in LoopIds : (loops[l].pc \notin {"none", "done"}) ~> (loops[l].pc = "done")
    /\ (status \in {"uploading", "pausing"}) ~> (status \in {"paused", "error", "complete"})
    /\ (status = "uploading") ~>
          \/ status \in {"pausing", "error"}
          \/ status = "complete" /\ position = file_size
    /\ [](status = "error" => \E l \in LoopIds : Exhausted(l))
    /\ [](status = "paused" => Last(log) = PausedEv)
    /\ [](status = "complete" => position = file_size)

\* an upload that ended in error was resumed and ran to complete: two
\* activations have begun and both have ended
C24_Witness ==
    /\ status = "complete"
    /\ position = file_size
    /\ \E i \in DOMAIN log : log[i].type = "onError"
    /\ \A l \in LoopIds : loops[l].pc = "done"

\* the activations with work left: awaiting a slice, a transport call or a
\* retry wait, or about to go round the loop again (an activation whose
\* last chunk is uploaded has only its return left)
Running ==
    {l \in LoopIds :
        \/ loops[l].pc \in {"slice", "transport", "wait", "waitResolved"}
        \/ loops[l].pc = "check" /\ ~loops[l].isLastChunkUploaded}

\* C25: an activation has work left exactly when status is uploading or
\* pausing; at most one activation has not ended; what it awaits is
\* pending (its transport call outstanding, its timer armed); and start()
\* and resume() are accepted only when every earlier activation has ended.
C25_LoopIffBusy ==
    /\ []((status \in {"uploading", "pausing"}) <=> (Running # {}))
    /\ [](Cardinality(Active) <= 1)
    /\ [](\A l \in LoopIds :
             /\ loops[l].pc = "transport" => Outstanding = {loops[l].call}
             /\ loops[l].pc # "transport" => loops[l].call \notin Outstanding
             /\ loops[l].pc = "wait" => loops[l].timerArmed)
    /\ [][(lastOp' = Op("start", TRUE) \/ lastOp' = Op("resume", TRUE)) =>
             /\ Active = {}
             /\ Cardinality(Active') = 1
             /\ Running' = Active']_vars

\* the second activation is awaiting its transport call, the first ended
\* when its pause was honoured
C25_Witness ==
    /\ status = "uploading"
    /\ loops[1].pc = "done"
    /\ loops[2].pc = "transport"
    /\ Running = {2}
    /\ \E i \in DOMAIN log : log[i] = PausedEv

\* the notifications made since pause() was last accepted
SincePause(lg) ==
    LET at == {i \in DOMAIN lg : lg[i] = StatusChangeEv("uploading", "pausing")}
    IN IF at = {} THEN <<>>
       ELSE SubSeq(lg, (CHOOSE i \in at : \A j \in at : j <= i) + 1, Len(lg))

\* the activations in ls that will issue a transport call at their next
\* step: the slice is awaited, or the retry timer has fired
AboutToCall(ls) ==
    {l \in LoopIds :
        \/ ls[l].pc = "slice"
        \/ ls[l].pc = "waitResolved" /\ ~ls[l].isPausd}

\* transport calls started since the pause, and those still to be started
\* before the pause is honoured
CallsDue(lg, ls) == CountOf(SincePause(lg), "onChunkUpload") + Cardinality(AboutToCall(ls))

\* C26: when pause() is accepted, one transport call is still due if the
\* activation is awaiting its slice or its retry timer has fired and the
\* retry is queued, and none if a transport call is outstanding, a retry
\* wait is pending or the chunk has just ended; while status is pausing
\* that number stays the same (a call that starts was the one due), no
\* activation begins a chunk or a wait, and position advances at most
\* once, by at most chunkBytes.
C26_AtMostOneMoreCall ==
    /\ [][lastOp' = Op("pause", TRUE) =>
             /\ CountOf(SincePause(log'), "onChunkUpload") = 0
             /\ CallsDue(log', loops') = Cardinality(AboutToCall(loops))
             /\ CallsDue(log', loops') <= 1
             /\ (Outstanding # {} \/ Waiting # {}) => CallsDue(log', loops') = 0]_vars
    /\ [][status = "pausing" =>
             /\ CallsDue(log', loops') = CallsDue(log, loops)
             /\ Len(calls') # Len(calls) =>
                   (Len(calls') = Len(calls) + 1 /\ AboutToCall(loops) # {})
             /\ \A l \in LoopIds : loops'[l].pc # "wait"
             /\ CountOf(SincePause(log'), "onChunkComplete") <= 1
             /\ position' # position =>
                   /\ CountOf(SincePause(log), "onChunkComplete") = 0
                   /\ position < position'
                   /\ position' <= position + chunkBytes]_vars
    /\ [](status = "pausing" => CallsDue(log, loops) <= 1)

\* a pause made while the slice was awaited: one call was started after
\* it, the chunk was committed, and the pause was then honoured
C26_Witness ==
    /\ status = "paused"
    /\ Len(log) >= 5
    /\ LET tail == SubSeq(log, Len(log) - 4, Len(log))
       IN /\ tail[1] = StatusChangeEv("uploading", "pausing")
          /\ tail[2].type = "onChunkUpload"
          /\ tail[3] = ChunkCompleteEv(position, file_size)
          /\ tail[4] = StatusChangeEv("pausing", "paused")
          /\ tail[5] = PausedEv

\* C27: a transport call has length 0 exactly when file.size is 0; every
\* call lies inside the file and is flagged isLastChunk exactly when it
\* ends at file.size; when file.size is a positive multiple of chunkBytes
\* every call is a full chunk, the one at offset size - chunkBytes is the
\* one flagged, and none starts at file.size.  For an empty file, start()
\* with no failure and no pause makes one call, with offset 0, length 0,
\* total 0, retry 0 and isLastChunk true, and status is complete exactly
\* when that call has succeeded.
C27_NoEmptyChunk ==
    /\ \A i \in DOMAIN calls :
          LET f == calls[i].form
          IN /\ (f.length = 0) <=> (file_size = 0)
             /\ f.offset + f.length <= f.total
             /\ f.total = file_size
             /\ file_size > 0 => f.offset < file_size
             /\ f.isLastChunk <=> (f.offset + f.length = f.total)
             /\ (file_size > 0 /\ file_size % chunkBytes = 0) =>
                   /\ f.length = chunkBytes
                   /\ f.isLastChunk <=> (f.offset = file_size - chunkBytes)
    /\ (file_size = 0 /\ AllSucceed) =>
          /\ Len(calls) <= 1
          /\ \A i \in DOMAIN calls :
                calls[i].form = [offset |-> 0, length |-> 0, retry |-> 0,
                                 total |-> 0, isLastChunk |-> TRUE]
          /\ (status = "complete") <=> (Succeeded = {1})
          /\ (status = "uploading") <=> (loops[1].pc \in {"slice", "transport"})
          /\ position = 0

\* an empty file has been uploaded with its one call
C27_Witness ==
    /\ file_size = 0
    /\ AllSucceed
    /\ status = "complete"
    /\ Len(calls) = 1
    /\ Only({"onChunkComplete"}) = <<ChunkCompleteEv(0, 0)>>

====
